---- MODULE Spec2Model ----
(***************************************************************************)
(* A model of the fred-api client library (src/src/lib.rs).                *)
(*                                                                         *)
(* One call of the library is a sequential process:                        *)
(*   FredRequest::new -> into_request -> HTTP GET -> first-line sniff ->   *)
(*   serde_json::from_str                                                  *)
(* The environment variable FRED_API_KEY and the HTTP transport are the    *)
(* two external collaborators; both are nondeterministic.                  *)
(*                                                                         *)
(* Text is a sequence of symbols.  A symbol is a single character ("&",    *)
(* "=", "?", "{", a digit, a letter, "\n" ...) or a word: a run of         *)
(* characters that holds no delimiter and can be no part of an occurrence  *)
(* of error_code ("series_id", "realtime_start", ...).  The literal        *)
(* error_code itself is always spelled letter by letter.                   *)
(***************************************************************************)
EXTENDS Integers, Sequences, FiniteSets, TLC

VARIABLES
    env,        \* the process environment's FRED_API_KEY, as env::var sees it
    pc,         \* position of the current call
    mode,       \* "build": FredRequest::new + into_request by the caller;
                \* "client": a FredClient operation (req / response)
    op,         \* index of the FredClient operation in Ops (0 in build mode)
    path,       \* the url argument of FredRequest::new
    params,     \* the keyvals argument of FredRequest::new
    request,    \* the FredRequest value
    reqstr,     \* the String returned by into_request
    bix,        \* index in Bodies of what the transport sent (0: nothing)
    response,   \* the text of the HTTP response
    result,     \* what the call returned to its caller
    gets,       \* HTTP GETs issued by the current call
    decodes,    \* serde_json::from_str calls made by the current call
    source,     \* a SeriesItems collection its owner holds
    call,       \* the last SeriesItems method called, its receiver and arguments
    view,       \* the collection that method returned
    it,         \* a SeriesItemsIter over source
    item,       \* what the iterator's last next() returned
    fci,        \* a FredClientIter
    ipc,        \* "idle", or "calling" while next() is inside the request function
    running,    \* the argument the request function is running on
    calls,      \* the calls of the request function that returned, in order
    started,    \* the calls of the request function that were started
    ret         \* what the calls of next() returned, in order

\* the variables of a request, those of a collection and those of a FredClientIter
cvars == <<env, pc, mode, op, path, params, request, reqstr, bix, response,
           result, gets, decodes>>
fvars == <<source, call, view, it, item>>
ivars == <<fci, ipc, running, calls, started, ret>>

vars == <<cvars, fvars, ivars>>

-----------------------------------------------------------------------------
(* Bounds *)

\* longest parameter list a direct caller of FredRequest::new passes
MaxParams == 2

\* longest SeriesItems collection, longest list of phrases or titles
MaxLen == 3
MaxPhrases == 2
MaxArgs == 3
MaxNexts == 5

-----------------------------------------------------------------------------
(* Text *)

RECURSIVE Concat(_)
Concat(ss) == IF ss = <<>> THEN <<>> ELSE Head(ss) \o Concat(Tail(ss))

\* str::contains: a contiguous occurrence of pat in s
contains(s, pat) ==
    \E i \in 1..(Len(s) - Len(pat) + 1) : SubSeq(s, i, i + Len(pat) - 1) = pat

Digits == <<"0", "1", "2", "3", "4", "5", "6", "7", "8", "9">>

\* Display for usize: decimal digits, most significant first
RECURSIVE usize_to_string(_)
usize_to_string(n) ==
    IF n < 10 THEN <<Digits[n + 1]>>
    ELSE usize_to_string(n \div 10) \o <<Digits[(n % 10) + 1]>>

\* A displayable parameter value: a &str / String or a usize
StrVal(s) == [ty |-> "str", s |-> s, n |-> 0]
NumVal(n) == [ty |-> "usize", s |-> <<>>, n |-> n]

\* a variant of Display that percent-encodes the characters reserved in a URL
Display_url_encoded(v) ==
    IF v.ty = "usize" THEN usize_to_string(v.n)
    ELSE Concat([i \in 1..Len(v.s) |->
                    CASE v.s[i] = "&" -> <<"%", "2", "6">>
                      [] v.s[i] = "=" -> <<"%", "3", "D">>
                      [] v.s[i] = "?" -> <<"%", "3", "F">>
                      [] v.s[i] = "#" -> <<"%", "2", "3">>
                      [] v.s[i] = " " -> <<"%", "2", "0">>
                      [] OTHER -> <<v.s[i]>>])

\* <T as Display>::fmt, as used by format!("{}={}", key, val)
Display(v) == IF v.ty = "usize" THEN usize_to_string(v.n) ELSE v.s

\* <String as Debug>::fmt, as used by {:?}: quoted, with " and \ escaped
RECURSIVE escape_debug(_)
escape_debug(s) ==
    IF s = <<>> THEN <<>>
    ELSE (IF Head(s) \in {"\"", "\\"} THEN <<"\\", Head(s)>> ELSE <<Head(s)>>)
         \o escape_debug(Tail(s))

Debug(s) == <<"\"">> \o escape_debug(s) \o <<"\"">>

-----------------------------------------------------------------------------
(* Result<T, anyhow::Error> *)

NoValue == [t |-> "none", s |-> <<>>, n |-> 0, a |-> <<>>]

Ok(v) == [kind |-> "Ok", msg |-> <<>>, val |-> v]
Err(kind, msg) == [kind |-> kind, msg |-> msg, val |-> NoValue]
NoResult == [kind |-> "Pending", msg |-> <<>>, val |-> NoValue]

\* Result<String>: ok, the string, or the error message
OkStr(s) == [ok |-> TRUE, val |-> s]
ErrStr(m) == [ok |-> FALSE, val |-> m]

-----------------------------------------------------------------------------
(* The environment: std::env::var("FRED_API_KEY") *)

NotPresent == [kind |-> "NotPresent", val |-> <<>>]
NotUnicode == [kind |-> "NotUnicode", val |-> <<>>]
Present(s) == [kind |-> "Ok", val |-> s]

Credentials == {<<>>, <<"k", "e", "y">>}

EnvStates == {NotPresent, NotUnicode} \cup {Present(c) : c \in Credentials}

-----------------------------------------------------------------------------
(* Request Builder *)

Format_Json == "Json"
Format_Xml == "Xml"

\* impl fmt::Display for Format
Format_fmt(f) ==
    IF f = Format_Json THEN <<"file_type", "=", "json">>
    ELSE <<"file_type", "=", "xml">>

\* a variant of FredRequest::new that stores the pairs in reverse order
FredRequest_new_reversed(url, keyvals) ==
    [url |-> url,
     keyvals |-> [i \in 1..Len(keyvals) |->
                     keyvals[Len(keyvals) + 1 - i].key \o <<"=">>
                        \o Display(keyvals[Len(keyvals) + 1 - i].val)],
     format |-> Format_Json]

\* FredRequest::new: one "key=value" string per input pair, in input order
FredRequest_new(url, keyvals) ==
    [url |-> url,
     keyvals |-> [i \in 1..Len(keyvals) |->
                     keyvals[i].key \o <<"=">> \o Display(keyvals[i].val)],
     format |-> Format_Json]

NoRequest == [url |-> <<>>, keyvals |-> <<>>, format |-> Format_Json]

\* the for loop of concat_keyvals: push every kv followed by sep
RECURSIVE push_keyvals(_, _)
push_keyvals(kvs, sep) ==
    IF kvs = <<>> THEN <<>>
    ELSE Head(kvs) \o <<sep>> \o push_keyvals(Tail(kvs), sep)

\* String::pop: removes the last character, if any
pop(s) == IF s = <<>> THEN s ELSE SubSeq(s, 1, Len(s) - 1)

\* a variant of concat_keyvals that keeps the trailing separator
concat_keyvals_no_pop(self, sep) == push_keyvals(self.keyvals, sep)

\* FredRequest::concat_keyvals: the pairs, each followed by sep, less the last sep
concat_keyvals(self, sep) == pop(push_keyvals(self.keyvals, sep))

base_url == <<"https://api.stlouisfed.org/">>

ConfigMsg == <<"Expected FRED_API_KEY to be set">>

\* a variant of api_key that takes an unreadable credential for the empty one
api_key_or_default(e) == OkStr(e.val)

\* IntoRequest::api_key: env::var(..).map_err(|_| ..)
api_key(e) == IF e.kind = "Ok" THEN OkStr(e.val) ELSE ErrStr(ConfigMsg)

\* a variant of into_request that refuses an empty parameter list
into_request_needs_params(self, e) ==
    IF ~api_key(e).ok \/ self.keyvals = <<>> THEN ErrStr(ConfigMsg)
    ELSE OkStr(base_url \o <<"fred", "/">> \o self.url \o <<"?">>
               \o concat_keyvals(self, "&") \o <<"&", "api_key", "=">>
               \o api_key(e).val \o <<"&">> \o Format_fmt(self.format))

\* IntoRequest::into_request:
\*   format!("{}fred/{}?{}&api_key={}&{}", base_url, url, keyvals, key, format)
into_request(self, e) ==
    IF ~api_key(e).ok THEN api_key(e)
    ELSE OkStr(base_url \o <<"fred", "/">> \o self.url \o <<"?">>
               \o concat_keyvals(self, "&") \o <<"&", "api_key", "=">>
               \o api_key(e).val \o <<"&">> \o Format_fmt(self.format))

-----------------------------------------------------------------------------
(* JSON text -> tokens -> value: the syntax half of serde_json::from_str *)

\* JSON values; one record shape for all of them
JStr(s) == [t |-> "str", s |-> s, n |-> 0, a |-> <<>>]
JNum(n) == [t |-> "num", s |-> <<>>, n |-> n, a |-> <<>>]
JBool(b) == [t |-> "bool", s |-> <<>>, n |-> IF b THEN 1 ELSE 0, a |-> <<>>]
JNull == [t |-> "null", s |-> <<>>, n |-> 0, a |-> <<>>]
JArr(a) == [t |-> "arr", s |-> <<>>, n |-> 0, a |-> a]
JPair(k, v) == [t |-> "pair", s |-> k, n |-> 0, a |-> <<v>>]
JObj(members) == [t |-> "obj", s |-> <<>>, n |-> 0, a |-> members]

Whitespace == {" ", "\n", "\r", "\t"}
Punctuation == {"{", "}", "[", "]", ":", ","}
DigitSet == {Digits[i] : i \in 1..10}
DigitValue(d) == CHOOSE i \in 0..9 : Digits[i + 1] = d

Tok(t, s, n) == [t |-> t, s |-> s, n |-> n]

\* index of the first symbol at or after i that is not in set (Len + 1 if none)
RECURSIVE skip_while(_, _, _)
skip_while(text, i, set) ==
    IF i > Len(text) \/ text[i] \notin set THEN i
    ELSE skip_while(text, i + 1, set)

\* index of the first symbol at or after i that equals c (Len + 1 if none)
find(text, i, c) ==
    IF \E j \in i..Len(text) : text[j] = c
    THEN CHOOSE j \in i..Len(text) : text[j] = c /\ \A h \in i..(j - 1) : text[h] # c
    ELSE Len(text) + 1

RECURSIVE digits_value(_)
digits_value(ds) ==
    IF ds = <<>> THEN 0
    ELSE 10 * digits_value(SubSeq(ds, 1, Len(ds) - 1)) + DigitValue(ds[Len(ds)])

LexFail == [ok |-> FALSE, toks |-> <<>>]
Lexed(toks) == [ok |-> TRUE, toks |-> toks]

\* f[lo] \o ... \o f[hi]
RECURSIVE Flatten(_, _, _)
Flatten(f, lo, hi) ==
    IF lo > hi THEN <<>>
    ELSE IF lo = hi THEN f[lo]
    ELSE Flatten(f, lo, (lo + hi) \div 2) \o Flatten(f, ((lo + hi) \div 2) + 1, hi)

\* the tokens of text[i..hi], a stretch outside every string: punctuation,
\* the words true, false and null, and numbers; whitespace separates them.
\* It fails on a symbol that starts no token and on a sign without digits.
RECURSIVE lex_plain(_, _, _)
lex_plain(text, i, hi) ==
    IF i > hi THEN Lexed(<<>>)
    ELSE IF text[i] \in Whitespace THEN lex_plain(text, i + 1, hi)
    ELSE LET c == text[i]
             j == IF c \in DigitSet THEN skip_while(text, i, DigitSet)
                  ELSE IF c = "-" THEN skip_while(text, i + 1, DigitSet)
                  ELSE i + 1
             tok == IF c \in DigitSet
                        THEN Tok("num", <<>>, digits_value(SubSeq(text, i, j - 1)))
                    ELSE IF c = "-"
                        THEN Tok("num", <<>>, 0 - digits_value(SubSeq(text, i + 1, j - 1)))
                    ELSE Tok(c, <<>>, 0)
             good == \/ c \in Punctuation \cup {"true", "false", "null"} \cup DigitSet
                     \/ c = "-" /\ j > i + 1
         IN IF ~good THEN LexFail
            ELSE LET r == lex_plain(text, j, hi) IN
                 IF r.ok THEN Lexed(<<tok>> \o r.toks) ELSE LexFail

\* the tokens of text: the quotes pair up into strings (the text holds no
\* escape), and the stretches between the strings are lexed on their own
lex(text) ==
    LET n == Len(text)
        Q == SelectSeq([i \in 1..n |-> i], LAMBDA i : text[i] = "\"")
        m == Len(Q) \div 2
        open(k) == Q[2 * k - 1]
        close(k) == IF k = 0 THEN 0 ELSE Q[2 * k]
        \* piece k: string k (none for k = 0) and the stretch after it
        after(k) == lex_plain(text, close(k) + 1, IF k = m THEN n ELSE open(k + 1) - 1)
        piece(k) == (IF k = 0 THEN <<>>
                     ELSE <<Tok("str", SubSeq(text, open(k) + 1, close(k) - 1), 0)>>)
                    \o after(k).toks
    IN
    IF Len(Q) % 2 = 1 \/ \E k \in 0..m : ~after(k).ok THEN LexFail
    ELSE Lexed(Flatten([k \in 1..(m + 1) |-> piece(k - 1)], 1, m + 1))

ParseFail == [ok |-> FALSE, v |-> JNull, i |-> 0]
Parsed(v, i) == [ok |-> TRUE, v |-> v, i |-> i]

\* recursive descent over the tokens; i is the next token to read
RECURSIVE parse_value(_, _), parse_elems(_, _, _), parse_members(_, _, _)
parse_value(toks, i) ==
    IF i > Len(toks) THEN ParseFail
    ELSE LET tk == toks[i] IN
        CASE tk.t = "str" -> Parsed(JStr(tk.s), i + 1)
          [] tk.t = "num" -> Parsed(JNum(tk.n), i + 1)
          [] tk.t = "true" -> Parsed(JBool(TRUE), i + 1)
          [] tk.t = "false" -> Parsed(JBool(FALSE), i + 1)
          [] tk.t = "null" -> Parsed(JNull, i + 1)
          [] tk.t = "[" ->
                IF i + 1 <= Len(toks) /\ toks[i + 1].t = "]"
                THEN Parsed(JArr(<<>>), i + 2)
                ELSE parse_elems(toks, i + 1, <<>>)
          [] tk.t = "{" ->
                IF i + 1 <= Len(toks) /\ toks[i + 1].t = "}"
                THEN Parsed(JObj(<<>>), i + 2)
                ELSE parse_members(toks, i + 1, <<>>)
          [] OTHER -> ParseFail

parse_elems(toks, i, acc) ==
    LET r == parse_value(toks, i) IN
    IF ~r.ok \/ r.i > Len(toks) THEN ParseFail
    ELSE IF toks[r.i].t = "," THEN parse_elems(toks, r.i + 1, Append(acc, r.v))
    ELSE IF toks[r.i].t = "]" THEN Parsed(JArr(Append(acc, r.v)), r.i + 1)
    ELSE ParseFail

parse_members(toks, i, acc) ==
    IF i + 1 > Len(toks) \/ toks[i].t # "str" \/ toks[i + 1].t # ":" THEN ParseFail
    ELSE LET r == parse_value(toks, i + 2) IN
        IF ~r.ok \/ r.i > Len(toks) THEN ParseFail
        ELSE IF toks[r.i].t = ","
            THEN parse_members(toks, r.i + 1, Append(acc, JPair(toks[i].s, r.v)))
        ELSE IF toks[r.i].t = "}"
            THEN Parsed(JObj(Append(acc, JPair(toks[i].s, r.v))), r.i + 1)
        ELSE ParseFail

\* one JSON value and nothing but whitespace after it
parse_json(text) ==
    LET l == lex(text) IN
    IF ~l.ok THEN ParseFail
    ELSE LET r == parse_value(l.toks, 1) IN
        IF r.ok /\ r.i = Len(l.toks) + 1 THEN r ELSE ParseFail

-----------------------------------------------------------------------------
(* Typed Response Model: the #[derive(Deserialize)] declarations *)

\* A type is the sequence of its constructors: <<"Option", "String">> is
\* Option<String>, <<"Vec", "Tag">> is Vec<Tag>, <<"Series">> a struct.
Field(name, ty) == [name |-> name, ty |-> ty]

TString == <<"String">>
Tisize == <<"isize">>
Tusize == <<"usize">>
Tbool == <<"bool">>

Categories_fields == <<Field("categories", <<"Vec", "Category">>)>>

Category_fields ==
    <<Field("id", Tusize), Field("name", TString), Field("parent_id", Tusize),
      Field("notes", <<"Option", "String">>)>>

\* the pagination envelope shared by Releases, Tags, SeriesTags, ...
Envelope_fields ==
    <<Field("realtime_start", TString), Field("realtime_end", TString),
      Field("order_by", TString), Field("sort_order", TString),
      Field("count", Tisize), Field("offset", Tisize), Field("limit", Tisize)>>

Tag_fields ==
    <<Field("name", TString), Field("group_id", TString),
      Field("notes", <<"Option", "String">>), Field("created", TString),
      Field("popularity", Tisize), Field("series_count", Tisize)>>

Tags_fields == Envelope_fields \o <<Field("tags", <<"Vec", "Tag">>)>>

CategoryRelatedTags_fields == Envelope_fields \o <<Field("tags", <<"Vec", "Tag">>)>>

SeriesTags_fields == Envelope_fields \o <<Field("tags", <<"Vec", "TagItem">>)>>

Releases_fields == Envelope_fields \o <<Field("releases", <<"Vec", "ReleaseItem">>)>>

Release_fields ==
    <<Field("realtime_start", TString), Field("realtime_end", TString),
      Field("releases", <<"Vec", "ReleaseItem">>)>>

ReleaseItem_fields ==
    <<Field("id", Tisize), Field("realtime_start", TString),
      Field("realtime_end", TString), Field("name", TString),
      Field("press_release", Tbool), Field("link", <<"Option", "String">>)>>

Series_fields ==
    <<Field("realtime_start", TString), Field("realtime_end", TString),
      Field("seriess", <<"SeriesItems">>)>>

SeriesItem_fields ==
    <<Field("id", TString), Field("realtime_start", TString),
      Field("realtime_end", TString), Field("title", TString),
      Field("observation_start", TString), Field("observation_end", TString),
      Field("frequency", TString), Field("units", TString),
      Field("units_short", TString), Field("seasonal_adjustment", TString),
      Field("seasonal_adjustment_short", TString), Field("last_updated", TString),
      Field("popularity", Tisize), Field("group_popularity", <<"Option", "isize">>),
      Field("notes", <<"Option", "String">>)>>

StructNames ==
    {"Categories", "Category", "Tags", "Tag", "CategoryRelatedTags", "SeriesTags",
     "TagItem", "Releases", "Release", "ReleaseItem", "Series", "SeriesItem"}

Fields(name) ==
    CASE name = "Categories" -> Categories_fields
      [] name = "Category" -> Category_fields
      [] name = "Tags" -> Tags_fields
      [] name = "Tag" -> Tag_fields
      [] name = "CategoryRelatedTags" -> CategoryRelatedTags_fields
      [] name = "SeriesTags" -> SeriesTags_fields
      [] name = "TagItem" -> Tag_fields
      [] name = "Releases" -> Releases_fields
      [] name = "Release" -> Release_fields
      [] name = "ReleaseItem" -> ReleaseItem_fields
      [] name = "Series" -> Series_fields
      [] name = "SeriesItem" -> SeriesItem_fields

\* pub struct SeriesItems(Vec<SeriesItem>): a newtype, decoded as its content
NewtypeOf(name) == IF name = "SeriesItems" THEN <<"Vec", "SeriesItem">> ELSE <<>>

-----------------------------------------------------------------------------
(* JSON value -> Rust value: the typed half of serde_json::from_str *)

\* Rust values; one record shape for all of them.  A struct value holds its
\* fields' values in declaration order.
RString(s) == [t |-> "String", s |-> s, n |-> 0, a |-> <<>>]
RInt(n) == [t |-> "int", s |-> <<>>, n |-> n, a |-> <<>>]
RBool(n) == [t |-> "bool", s |-> <<>>, n |-> n, a |-> <<>>]
RNone == [t |-> "None", s |-> <<>>, n |-> 0, a |-> <<>>]
RSome(v) == [t |-> "Some", s |-> <<>>, n |-> 0, a |-> <<v>>]
RVec(a) == [t |-> "Vec", s |-> <<>>, n |-> 0, a |-> a]
RNewtype(name, v) == [t |-> "newtype", s |-> <<name>>, n |-> 0, a |-> <<v>>]
RStruct(name, a) == [t |-> "struct", s |-> <<name>>, n |-> 0, a |-> a]

DeFail == [ok |-> FALSE, v |-> NoValue]
DeOk(v) == [ok |-> TRUE, v |-> v]

\* the members of object j whose key is the field name
Members(j, name) == SelectSeq(j.a, LAMBDA m : m.s = <<name>>)

RECURSIVE deserialize(_, _), deserialize_struct(_, _)

\* a variant of missing_field that fills every absent field with a default
missing_field_lenient(ty) ==
    CASE Head(ty) = "Option" -> DeOk(RNone)
      [] Head(ty) = "String" -> DeOk(RString(<<>>))
      [] Head(ty) \in {"isize", "usize"} -> DeOk(RInt(0))
      [] Head(ty) = "bool" -> DeOk(RBool(0))
      [] OTHER -> DeOk(RVec(<<>>))

\* serde's missing_field: an absent Option field is None, any other an error
missing_field(ty) == IF Head(ty) = "Option" THEN DeOk(RNone) ELSE DeFail

deserialize(ty, j) ==
    CASE Head(ty) = "String" -> IF j.t = "str" THEN DeOk(RString(j.s)) ELSE DeFail
      [] Head(ty) = "isize" -> IF j.t = "num" THEN DeOk(RInt(j.n)) ELSE DeFail
      [] Head(ty) = "usize" ->
            IF j.t = "num" /\ j.n >= 0 THEN DeOk(RInt(j.n)) ELSE DeFail
      [] Head(ty) = "bool" -> IF j.t = "bool" THEN DeOk(RBool(j.n)) ELSE DeFail
      [] Head(ty) = "Option" ->
            IF j.t = "null" THEN DeOk(RNone)
            ELSE LET r == deserialize(Tail(ty), j) IN
                 IF r.ok THEN DeOk(RSome(r.v)) ELSE DeFail
      [] Head(ty) = "Vec" ->
            IF j.t # "arr" THEN DeFail
            ELSE LET rs == [i \in 1..Len(j.a) |-> deserialize(Tail(ty), j.a[i])] IN
                 IF \A i \in 1..Len(rs) : rs[i].ok
                 THEN DeOk(RVec([i \in 1..Len(rs) |-> rs[i].v]))
                 ELSE DeFail
      [] NewtypeOf(Head(ty)) # <<>> ->
            LET r == deserialize(NewtypeOf(Head(ty)), j) IN
            IF r.ok THEN DeOk(RNewtype(Head(ty), r.v)) ELSE DeFail
      [] OTHER -> deserialize_struct(Head(ty), j)

\* the derived Deserialize of a struct: visit_map for a JSON object (unknown
\* keys ignored, a repeated field an error, an absent field missing_field),
\* visit_seq for a JSON array (the fields by position, all of them)
deserialize_struct(name, j) ==
    LET fs == Fields(name) IN
    IF j.t = "obj" THEN
        LET rs == [k \in 1..Len(fs) |->
                     LET ms == Members(j, fs[k].name) IN
                     IF Len(ms) = 0 THEN missing_field(fs[k].ty)
                     ELSE IF Len(ms) > 1 THEN DeFail
                     ELSE deserialize(fs[k].ty, ms[1].a[1])] IN
        IF \A k \in 1..Len(fs) : rs[k].ok
        THEN DeOk(RStruct(name, [k \in 1..Len(fs) |-> rs[k].v]))
        ELSE DeFail
    ELSE IF j.t = "arr" THEN
        IF Len(j.a) # Len(fs) THEN DeFail
        ELSE LET rs == [k \in 1..Len(fs) |-> deserialize(fs[k].ty, j.a[k])] IN
             IF \A k \in 1..Len(fs) : rs[k].ok
             THEN DeOk(RStruct(name, [k \in 1..Len(fs) |-> rs[k].v]))
             ELSE DeFail
    ELSE DeFail

\* serde_json::from_str::<U>(text)
from_str(U, text) ==
    LET p == parse_json(text) IN
    IF ~p.ok THEN DeFail ELSE deserialize(<<U>>, p.v)

-----------------------------------------------------------------------------
(* response(): the checks on the text the transport returned *)

ErrorCode == <<"e", "r", "r", "o", "r", "_", "c", "o", "d", "e">>

None == [some |-> FALSE, val |-> <<>>]
Some(x) == [some |-> TRUE, val |-> x]

\* variants of first_line: one that finds a line in the empty text, one that
\* takes the whole text for the first line
first_line_or_empty(s) ==
    LET j == find(s, 1, "\n") IN
    IF j <= Len(s) /\ j > 1 /\ s[j - 1] = "\r" THEN Some(SubSeq(s, 1, j - 2))
    ELSE Some(SubSeq(s, 1, j - 1))

whole_text(s) == IF s = <<>> THEN None ELSE Some(s)

\* str::lines().next(): nothing for the empty string, else the text before
\* the first "\n", without the "\r" of a "\r\n" ending
first_line(s) ==
    LET j == find(s, 1, "\n") IN
    IF s = <<>> THEN None
    ELSE IF j <= Len(s) /\ j > 1 /\ s[j - 1] = "\r" THEN Some(SubSeq(s, 1, j - 2))
    ELSE Some(SubSeq(s, 1, j - 1))

\* a variant of is_error_line that looks for the quoted literal
is_error_line_quoted(line) == contains(line, <<"\"">> \o ErrorCode \o <<"\"">>)

\* first_line.contains("error_code")
is_error_line(line) == contains(line, ErrorCode)

EmptyMsg(req) == <<"Http response to [">> \o Debug(req) \o <<"] was empty.">>

ApiMsg(req, text) ==
    <<"Http request [">> \o Debug(req) \o <<"] failed with error [">> \o text \o <<"].">>

\* lines 400-408 of response(): Ok(text) or one of its two errors
\* a variant of check_response that takes an empty first line for an empty body
check_response_blank_is_empty(req, text) ==
    LET line == first_line(text) IN
    IF ~line.some \/ line.val = <<>> THEN Err("Empty", EmptyMsg(req))
    ELSE IF is_error_line(line.val) THEN Err("Api", ApiMsg(req, text))
    ELSE Ok(NoValue)

\* response(), from the empty check on
check_response(req, text) ==
    LET line == first_line(text) IN
    IF ~line.some THEN Err("Empty", EmptyMsg(req))
    ELSE IF is_error_line(line.val) THEN Err("Api", ApiMsg(req, text))
    ELSE Ok(NoValue)

\* a variant of decode whose error does not carry the body
decode_without_context(U, text) ==
    LET r == from_str(U, text) IN
    IF r.ok THEN Ok(r.v) ELSE Err("Decode", <<"Failed to parse">>)

\* req(): serde_json::from_str(&response).context(format!("Failed to parse [{}]", response))
decode(U, text) ==
    LET r == from_str(U, text) IN
    IF r.ok THEN Ok(r.v) ELSE Err("Decode", <<"Failed to parse [">> \o text \o <<"]">>)

-----------------------------------------------------------------------------
(* The transport collaborator: what reqwest::blocking::get can return *)

\* items in each list of a response the server sends
MaxItems == 1

\* How a server document departs from the full shape of its schema:
\* nothing, or one field of one struct left out, given a value of another
\* type, sent as null, sent twice, or given a text that mentions error_code;
\* or a member the schema does not declare (named error_code) added.
Pert(kind, struct, field) == [kind |-> kind, struct |-> struct, field |-> field]
NoPert == Pert("none", "", "")

RECURSIVE Wrong(_)
Wrong(ty) ==
    CASE Head(ty) = "String" -> JNum(1)
      [] Head(ty) = "Option" -> Wrong(Tail(ty))
      [] OTHER -> JStr(<<"abc">>)

Mention == JStr(<<"see", " ">> \o ErrorCode \o <<"s">>)

\* a document of type ty, every field present, but for the perturbation
RECURSIVE Sample(_, _)
Sample(ty, pt) ==
    CASE Head(ty) = "String" -> JStr(<<"abc">>)
      [] Head(ty) = "isize" -> JNum(12)
      [] Head(ty) = "usize" -> JNum(3)
      [] Head(ty) = "bool" -> JBool(TRUE)
      [] Head(ty) = "Option" -> Sample(Tail(ty), pt)
      [] Head(ty) = "Vec" -> JArr([i \in 1..MaxItems |-> Sample(Tail(ty), pt)])
      [] NewtypeOf(Head(ty)) # <<>> -> Sample(NewtypeOf(Head(ty)), pt)
      [] OTHER ->
            LET fs == Fields(Head(ty))
                hit(k) == pt.struct = Head(ty) /\ pt.field = fs[k].name
                plain(k) == JPair(<<fs[k].name>>, Sample(fs[k].ty, pt))
                member(k) ==
                    IF ~hit(k) THEN <<plain(k)>>
                    ELSE CASE pt.kind = "omit" -> <<>>
                           [] pt.kind = "mistype" -> <<JPair(<<fs[k].name>>, Wrong(fs[k].ty))>>
                           [] pt.kind = "null" -> <<JPair(<<fs[k].name>>, JNull)>>
                           [] pt.kind = "twice" -> <<plain(k), plain(k)>>
                           [] pt.kind = "mention" -> <<JPair(<<fs[k].name>>, Mention)>>
                           [] OTHER -> <<plain(k)>>
                extra == IF pt.kind = "extra" /\ pt.struct = Head(ty)
                         THEN <<JPair(ErrorCode, JNum(1))>> ELSE <<>>
            IN JObj(extra \o Concat([k \in 1..Len(fs) |-> member(k)]))

\* the JSON text of a value; nl is what follows every "{", "[" and ","
RECURSIVE Render(_, _), RenderAll(_, _)
Render(v, nl) ==
    CASE v.t = "str" -> <<"\"">> \o v.s \o <<"\"">>
      [] v.t = "num" ->
            IF v.n < 0 THEN <<"-">> \o usize_to_string(0 - v.n) ELSE usize_to_string(v.n)
      [] v.t = "bool" -> IF v.n = 1 THEN <<"true">> ELSE <<"false">>
      [] v.t = "null" -> <<"null">>
      [] v.t = "pair" -> <<"\"">> \o v.s \o <<"\"", ":">> \o Render(v.a[1], nl)
      [] v.t = "arr" -> <<"[">> \o nl \o RenderAll(v.a, nl) \o <<"]">>
      [] v.t = "obj" -> <<"{">> \o nl \o RenderAll(v.a, nl) \o <<"}">>

RenderAll(vs, nl) ==
    IF vs = <<>> THEN <<>>
    ELSE IF Len(vs) = 1 THEN Render(vs[1], nl)
    ELSE Render(vs[1], nl) \o <<",">> \o nl \o RenderAll(Tail(vs), nl)

Compact == <<>>
Pretty == <<"\n">>
PrettyCrLf == <<"\r", "\n">>

\* the schemas the server's documents are made for
DocSchemas == <<"Series", "Release", "Tags", "Categories">>

\* the structs a document of the schema holds
StructsOf(U) ==
    CASE U = "Series" -> <<"Series", "SeriesItem">>
      [] U = "Release" -> <<"Release", "ReleaseItem">>
      [] U = "Tags" -> <<"Tags", "Tag">>
      [] U = "Categories" -> <<"Categories", "Category">>

\* every one-field perturbation of every document schema
FieldPerts(kind) ==
    Concat([u \in 1..Len(DocSchemas) |->
        Concat([s \in 1..Len(StructsOf(DocSchemas[u])) |->
            LET S == StructsOf(DocSchemas[u])[s] IN
            [k \in 1..Len(Fields(S)) |->
                [schema |-> DocSchemas[u], pt |-> Pert(kind, S, Fields(S)[k].name)]]])])

Body(made, schema, pt, doc, wf, text) ==
    [made |-> made, schema |-> schema, pt |-> pt, doc |-> doc, wf |-> wf, text |-> text]

\* a document of the schema, rendered
SampleBody(schema, pt, nl) ==
    Body("sample", schema, pt, Sample(<<schema>>, pt), TRUE,
         Render(Sample(<<schema>>, pt), nl))

ErrorDoc ==
    JObj(<<JPair(ErrorCode, JNum(429)),
           JPair(<<"error_message">>, JStr(<<"Too", " ", "Many", " ", "Requests">>))>>)

\* Categories with its structs sent as arrays: [[[3,"abc",3,null]]]
ArrayFormDoc == JArr(<<JArr(<<JArr(<<JNum(3), JStr(<<"abc">>), JNum(3), JNull>>)>>)>>)

\* a category whose id is no usize
NegativeIdDoc ==
    JObj(<<JPair(<<"categories">>, JArr(<<JObj(<<
        JPair(<<"id">>, JNum(0 - 1)), JPair(<<"name">>, JStr(<<"abc">>)),
        JPair(<<"parent_id">>, JNum(0))>>)>>))>>)

SpecialBodies ==
    <<Body("empty", "", NoPert, JNull, FALSE, <<>>),
      Body("blank first line", "Series", NoPert, Sample(<<"Series">>, NoPert), TRUE,
           <<"\n">> \o Render(Sample(<<"Series">>, NoPert), Compact)),
      Body("error", "", NoPert, ErrorDoc, TRUE, Render(ErrorDoc, Compact)),
      Body("error", "", NoPert, ErrorDoc, TRUE, Render(ErrorDoc, Pretty)),
      Body("error then document", "", NoPert, JNull, FALSE,
           Render(ErrorDoc, Compact) \o <<"\n">> \o Render(Sample(<<"Series">>, NoPert), Compact)),
      Body("document then error", "", NoPert, JNull, FALSE,
           Render(Sample(<<"Series">>, NoPert), Compact) \o <<"\n">> \o Render(ErrorDoc, Compact)),
      Body("truncated", "Series", NoPert, JNull, FALSE,
           pop(Render(Sample(<<"Series">>, NoPert), Compact))),
      Body("trailing", "Release", NoPert, JNull, FALSE,
           Render(Sample(<<"Release">>, NoPert), Compact) \o <<"abc">>),
      Body("bare error_code", "", NoPert, JNull, FALSE, ErrorCode \o <<":", "4", "2", "9">>),
      Body("array form", "Categories", NoPert, ArrayFormDoc, TRUE, Render(ArrayFormDoc, Compact)),
      Body("negative id", "Categories", NoPert, NegativeIdDoc, TRUE,
           Render(NegativeIdDoc, Compact)),
      Body("string", "String", NoPert, JStr(<<"abc">>), TRUE, Render(JStr(<<"abc">>), Compact))>>

Bodies ==
    SpecialBodies
    \o [u \in 1..Len(DocSchemas) |-> SampleBody(DocSchemas[u], NoPert, Compact)]
    \o [u \in 1..Len(DocSchemas) |-> SampleBody(DocSchemas[u], NoPert, Pretty)]
    \o [u \in 1..Len(DocSchemas) |-> SampleBody(DocSchemas[u], NoPert, PrettyCrLf)]
    \o [u \in 1..Len(DocSchemas) |->
            SampleBody(DocSchemas[u], Pert("extra", DocSchemas[u], ""), Compact)]
    \o [u \in 1..Len(DocSchemas) |->
            SampleBody(DocSchemas[u], Pert("extra", DocSchemas[u], ""), Pretty)]
    \o [i \in 1..Len(FieldPerts("omit")) |->
            SampleBody(FieldPerts("omit")[i].schema, FieldPerts("omit")[i].pt, Compact)]
    \o [i \in 1..Len(FieldPerts("mistype")) |->
            SampleBody(FieldPerts("mistype")[i].schema, FieldPerts("mistype")[i].pt, Compact)]
    \o [i \in 1..Len(FieldPerts("null")) |->
            SampleBody(FieldPerts("null")[i].schema, FieldPerts("null")[i].pt, Compact)]
    \o <<SampleBody("Series", Pert("twice", "Series", "realtime_end"), Compact),
         SampleBody("Series", Pert("twice", "SeriesItem", "notes"), Compact),
         SampleBody("Series", Pert("mention", "SeriesItem", "title"), Compact),
         SampleBody("Series", Pert("mention", "SeriesItem", "title"), Pretty),
         SampleBody("Series", Pert("mention", "SeriesItem", "notes"), Compact),
         SampleBody("Series", Pert("mention", "Series", "realtime_start"), Pretty),
         SampleBody("Tags", Pert("mention", "Tag", "name"), PrettyCrLf)>>

-----------------------------------------------------------------------------
(* Facade: the FredClient operations *)

\* an operation: its path, its parameter names, the argument lists callers
\* pass to it, and its return type U
Operation(name, url, keys, args, U) ==
    [name |-> name, url |-> url, keys |-> keys, args |-> args, U |-> U]

Ops ==
    <<Operation("category", <<"category">>, <<<<"category_id">>>>,
                {<<NumVal(0)>>, <<NumVal(125)>>}, "Categories"),
      Operation("category_related_tags", <<"category", "/", "related_tags">>,
                <<<<"category_id">>, <<"tag_names">>>>,
                {<<StrVal(<<"1", "2", "5">>), StrVal(<<"usa">>)>>}, "CategoryRelatedTags"),
      Operation("releases", <<"releases">>, <<>>, {<<>>}, "Releases"),
      Operation("release", <<"release">>, <<<<"release_id">>>>,
                {<<NumVal(53)>>}, "Release"),
      Operation("series", <<"series">>, <<<<"series_id">>>>,
                {<<StrVal(<<"GNPCA">>)>>}, "Series"),
      Operation("series_json", <<"series">>, <<<<"series_id">>>>,
                {<<StrVal(<<"GNPCA">>)>>}, "String"),
      Operation("series_tags", <<"series", "/", "tags">>, <<<<"series_id">>>>,
                {<<StrVal(<<"GNPCA">>)>>}, "SeriesTags"),
      Operation("tags", <<"tags">>, <<>>, {<<>>}, "Tags"),
      Operation("series_observations_json", <<"series", "/", "observations">>,
                <<<<"series_id">>>>, {<<StrVal(<<"GNPCA">>)>>}, "String")>>

\* the index of an operation in Ops
OpIndex(name) == CHOOSE o \in 1..Len(Ops) : Ops[o].name = name

\* the ids of the SeriesItem values whose tags() is called
ItemIds == {<<"GNPCA">>}

\* SeriesTags::one_line: every tag's name followed by ", "
one_line(self) ==
    LET tags == self.a[Len(SeriesTags_fields)].a IN
    Concat([i \in 1..Len(tags) |-> tags[i].a[1].s \o <<",", " ">>])

\* the values direct callers of FredRequest::new pass
ArgVals ==
    {StrVal(<<"GNPCA">>), StrVal(<<"a", "&", "b", "=", "c", "?", "#", " ", "d">>), NumVal(0), NumVal(125)}

\* the url and key arguments of direct callers of FredRequest::new
Paths == {<<>>, <<"releases">>, <<"series", "/", "tags">>}
Keys == {<<"series_id">>, <<"tag_names">>}

KeyVal(k, v) == [key |-> k, val |-> v]

\* Vec<(&'static str, T)>: every value of one list has the same type T
ParamLists ==
    {kvs \in UNION {[1..n -> {KeyVal(k, v) : k \in Keys, v \in ArgVals}] : n \in 0..MaxParams} :
        \A i, j \in 1..Len(kvs) : kvs[i].val.ty = kvs[j].val.ty}

-----------------------------------------------------------------------------
(* SeriesItems: the collection and its filters *)

\* a SeriesItem; the filters read its title, clone() copies all of it
SeriesItem(id, title) == [id |-> id, title |-> title]

clone(series) == [id |-> series.id, title |-> series.title]

\* SeriesItemsIter: the collection it borrows and its position
SeriesItemsIter(data, count) == [live |-> TRUE, data |-> data, count |-> count]
NoIter == [live |-> FALSE, data |-> <<>>, count |-> 0]

\* SeriesItems::iter
iter(self) == SeriesItemsIter(self, 0)

\* a variant of next that stops one item early
SeriesItemsIter_next_stops_early(self) ==
    IF self.count + 1 >= Len(self.data) THEN [it |-> self, item |-> None]
    ELSE [it |-> SeriesItemsIter(self.data, self.count + 1),
          item |-> Some(self.data[self.count + 1])]

\* SeriesItemsIter::next: the iterator after the call and the item it yields
SeriesItemsIter_next(self) ==
    IF self.count = Len(self.data) THEN [it |-> self, item |-> None]
    ELSE [it |-> SeriesItemsIter(self.data, self.count + 1),
          item |-> Some(self.data[self.count + 1])]

\* a variant of the loop that puts every kept item in front of the others
RECURSIVE push_front_loop(_, _, _)
push_front_loop(iterator, keep, v) ==
    LET n == SeriesItemsIter_next(iterator) IN
    IF ~n.item.some THEN v
    ELSE push_front_loop(n.it, keep,
                         IF keep[n.it.count] THEN <<clone(n.item.val)>> \o v ELSE v)

\* for series in self.iter() { if keep { v.push(series.clone()) } }, where
\* keep[i] is the value of the condition for the i-th item
RECURSIVE push_loop(_, _, _)
push_loop(iterator, keep, v) ==
    LET n == SeriesItemsIter_next(iterator) IN
    IF ~n.item.some THEN v
    ELSE push_loop(n.it, keep,
                   IF keep[n.it.count] THEN Append(v, clone(n.item.val)) ELSE v)

\* a variant of the filters' loop that leaves out the first item it kept
filter_loop_drop_first(self, keep) ==
    IF push_loop(iter(self), keep, <<>>) = <<>> THEN <<>>
    ELSE Tail(push_loop(iter(self), keep, <<>>))

\* the body of the filters' loops
filter_loop(self, keep) == push_loop(iter(self), keep, <<>>)

\* a variant of any_contains that holds for the empty list
any_contains_vacuous(series, phrases) ==
    phrases = <<>> \/ \E k \in 1..Len(phrases) : contains(series.title, phrases[k])

\* phrases.iter().any(|title| series.title.contains(title))
any_contains(series, phrases) ==
    \E k \in 1..Len(phrases) : contains(series.title, phrases[k])

\* titles.iter().any(|title| *title == series.title)
any_equals(series, titles) ==
    \E k \in 1..Len(titles) : titles[k] = series.title

\* variants of the filters
equals_one_of_drop_first(self, titles) ==
    filter_loop_drop_first(self, [i \in 1..Len(self) |->
                                    \E k \in 1..Len(titles) : titles[k] = self[i].title])

only_include_first_only(self, phrases) ==
    filter_loop(self, [i \in 1..Len(self) |->
                          phrases # <<>> /\ contains(self[i].title, phrases[1])])

exclude_phrases_keeps_all(self, phrases) ==
    filter_loop(self, [i \in 1..Len(self) |-> TRUE])

exclude_phrases_first_only(self, phrases) ==
    filter_loop(self, [i \in 1..Len(self) |->
                          ~(phrases # <<>> /\ contains(self[i].title, phrases[1]))])

has_phrase_prefix(self, phrase) ==
    filter_loop(self, [i \in 1..Len(self) |->
                          SubSeq(self[i].title, 1, Len(phrase)) = phrase])

equals_one_of_contains(self, titles) ==
    filter_loop(self, [i \in 1..Len(self) |-> any_contains(self[i], titles)])

only_include_every(self, phrases) ==
    filter_loop(self, [i \in 1..Len(self) |->
                          \A k \in 1..Len(phrases) : contains(self[i].title, phrases[k])])

\* SeriesItems::exclude_phrases
exclude_phrases(self, phrases) ==
    filter_loop(self, [i \in 1..Len(self) |-> ~any_contains(self[i], phrases)])

\* SeriesItems::has_phrase
has_phrase(self, phrase) ==
    filter_loop(self, [i \in 1..Len(self) |-> contains(self[i].title, phrase)])

\* SeriesItems::equals_one_of
equals_one_of(self, titles) ==
    filter_loop(self, [i \in 1..Len(self) |-> any_equals(self[i], titles)])

\* SeriesItems::only_include: for series in &self.0
only_include(self, phrases) ==
    filter_loop(self, [i \in 1..Len(self) |-> any_contains(self[i], phrases)])

\* SeriesItems::inner: (*self.0).to_vec()
inner(self) == [i \in 1..Len(self) |-> clone(self[i])]

\* the items, the phrases and the titles callers use
Items ==
    {SeriesItem(<<"A">>, <<"a">>), SeriesItem(<<"B">>, <<"b", "c">>),
     SeriesItem(<<"C">>, <<"d">>)}
Phrases == {<<>>, <<"a">>, <<"c">>}

Collections == UNION {[1..n -> Items] : n \in 0..MaxLen}
\* lists of distinct phrases
PhraseLists ==
    {P \in UNION {[1..n -> Phrases] : n \in 0..MaxPhrases} :
        \A i, j \in 1..Len(P) : i # j => P[i] # P[j]}

\* a method call: its name, the receiver ("source" or "view") and what it
\* held when called, and the arguments
Call(name, recv, self, args) == [name |-> name, recv |-> recv, self |-> self, args |-> args]
NoCall == Call("none", "source", <<>>, <<>>)

\* no collection in use
FilterIdle ==
    /\ source = <<>>
    /\ call = NoCall
    /\ view = <<>>
    /\ it = NoIter
    /\ item = None

-----------------------------------------------------------------------------
(* FredClientIter *)

\* the argument vectors a caller passes
ArgSeqs == UNION {[1..n -> {1, 2, 3}] : n \in 0..MaxArgs}

\* vec.iter(): the iterator over the arguments
args_iter(data) == [data |-> data, pos |-> 0]

\* a variant of the argument iterator that starts again at its end
args_iter_next_cycles(self) ==
    IF self.pos = Len(self.data) THEN [iter |-> [self EXCEPT !.pos = 0], item |-> None]
    ELSE [iter |-> [self EXCEPT !.pos = @ + 1], item |-> Some(self.data[self.pos + 1])]

\* self.args_iter.next()
args_iter_next(self) ==
    IF self.pos = Len(self.data) THEN [iter |-> self, item |-> None]
    ELSE [iter |-> [self EXCEPT !.pos = @ + 1], item |-> Some(self.data[self.pos + 1])]

\* FredClientIter { args_iter, f }
FredClientIter(a) == [live |-> TRUE, args_iter |-> a]
NoClientIter == [live |-> FALSE, args_iter |-> args_iter(<<>>)]

\* (&self.f)(args): what the request function returns for an argument
self_f(args, ok) == IF ok THEN Ok(<<args>>) ELSE Err("request", <<args>>)

\* no FredClientIter in use
ClientIterIdle ==
    /\ fci = NoClientIter
    /\ ipc = "idle"
    /\ running = None
    /\ calls = <<>>
    /\ started = 0
    /\ ret = <<>>

-----------------------------------------------------------------------------
(* The state machine *)

Idle ==
    /\ pc = "idle"
    /\ mode = "build"
    /\ op = 0
    /\ path = <<>>
    /\ params = <<>>
    /\ request = NoRequest
    /\ reqstr = <<>>
    /\ bix = 0
    /\ response = <<>>
    /\ result = NoResult
    /\ gets = 0
    /\ decodes = 0

Init == env \in EnvStates /\ Idle /\ FilterIdle /\ ClientIterIdle

\* the environment of the process changes between two calls
SetEnv ==
    /\ pc = "idle"
    /\ \E e \in EnvStates \ {env} : env' = e
    /\ UNCHANGED <<pc, mode, op, path, params, request, reqstr, bix, response,
                   result, gets, decodes>>
    /\ UNCHANGED <<fvars, ivars>>

\* a caller builds a request itself: FredRequest::new(url, keyvals)
NewRequest ==
    /\ pc = "idle"
    /\ \E url \in Paths, kvs \in ParamLists :
          /\ path' = url
          /\ params' = kvs
          /\ request' = FredRequest_new(url, kvs)
    /\ mode' = "build"
    /\ pc' = "new"
    /\ UNCHANGED <<env, op, reqstr, bix, response, result, gets, decodes>>
    /\ UNCHANGED <<fvars, ivars>>

\* a FredClient operation: req(FredRequest::new(url, vec![(key, arg), ...])?)
ClientCall ==
    /\ pc = "idle"
    /\ \E o \in 1..Len(Ops) : \E as \in Ops[o].args :
          LET kvs == [i \in 1..Len(as) |-> KeyVal(Ops[o].keys[i], as[i])] IN
          /\ op' = o
          /\ path' = Ops[o].url
          /\ params' = kvs
          /\ request' = FredRequest_new(Ops[o].url, kvs)
    /\ mode' = "client"
    /\ pc' = "new"
    /\ UNCHANGED <<env, reqstr, bix, response, result, gets, decodes>>
    /\ UNCHANGED <<fvars, ivars>>

\* SeriesItem::tags: FredClient::series_tags(&self.id), then unwrap and one_line
ItemTags ==
    /\ pc = "idle"
    /\ \E id \in ItemIds :
          LET o == OpIndex("series_tags")
              kvs == <<KeyVal(Ops[o].keys[1], StrVal(id))>> IN
          /\ op' = o
          /\ path' = Ops[o].url
          /\ params' = kvs
          /\ request' = FredRequest_new(Ops[o].url, kvs)
    /\ mode' = "item"
    /\ pc' = "new"
    /\ UNCHANGED <<env, reqstr, bix, response, result, gets, decodes>>
    /\ UNCHANGED <<fvars, ivars>>

\* into_request(): by the caller in build mode, by response() otherwise
IntoRequest ==
    /\ pc = "new"
    /\ LET r == into_request(request, env) IN
       IF ~r.ok THEN
            /\ result' = Err("Config", r.val)
            /\ pc' = "done"
            /\ UNCHANGED reqstr
       ELSE
            /\ reqstr' = r.val
            /\ IF mode = "build"
               THEN result' = Ok(NoValue) /\ pc' = "done"
               ELSE pc' = "get" /\ UNCHANGED result
    /\ UNCHANGED <<env, mode, op, path, params, request, bix, response, gets, decodes>>
    /\ UNCHANGED <<fvars, ivars>>

\* a variant of GetFails that tries the GET again
GetFails_retries ==
    /\ pc = "get" /\ gets < 2
    /\ gets' = gets + 1
    /\ UNCHANGED <<env, pc, mode, op, path, params, request, reqstr, bix, response,
                   result, decodes>>
    /\ UNCHANGED <<fvars, ivars>>

\* reqwest::blocking::get(&req)? or text_with_charset("utf-8")? fails
GetFails ==
    /\ pc = "get"
    /\ gets' = gets + 1
    /\ result' = Err("Transport", <<"reqwest::Error">>)
    /\ pc' = "done"
    /\ UNCHANGED <<env, mode, op, path, params, request, reqstr, bix, response, decodes>>
    /\ UNCHANGED <<fvars, ivars>>

\* reqwest::blocking::get(&req)?.text_with_charset("utf-8")? returns a text
GetBody ==
    /\ pc = "get"
    /\ gets' = gets + 1
    /\ \E b \in 1..Len(Bodies) :
          /\ bix' = b
          /\ response' = Bodies[b].text
    /\ pc' = "sniff"
    /\ UNCHANGED <<env, mode, op, path, params, request, reqstr, result, decodes>>
    /\ UNCHANGED <<fvars, ivars>>

\* the rest of response(): the empty check and the first-line check
CheckResponse ==
    /\ pc = "sniff"
    /\ LET r == check_response(reqstr, response) IN
       IF r.kind = "Ok" THEN pc' = "decode" /\ UNCHANGED result
       ELSE result' = r /\ pc' = "done"
    /\ UNCHANGED <<env, mode, op, path, params, request, reqstr, bix, response,
                   gets, decodes>>
    /\ UNCHANGED <<fvars, ivars>>

\* the rest of req(): serde_json::from_str into the operation's type U
Decode ==
    /\ pc = "decode"
    /\ decodes' = decodes + 1
    /\ result' = decode(Ops[op].U, response)
    /\ pc' = "done"
    /\ UNCHANGED <<env, mode, op, path, params, request, reqstr, bix, response, gets>>
    /\ UNCHANGED <<fvars, ivars>>

\* the rest of SeriesItem::tags: .unwrap() panics on Err, else .one_line()
Unwrap ==
    /\ pc = "done" /\ mode = "item"
    /\ IF result.kind = "Ok"
       THEN result' = Ok(RString(one_line(result.val))) /\ pc' = "returned"
       ELSE pc' = "panic" /\ UNCHANGED result
    /\ UNCHANGED <<env, mode, op, path, params, request, reqstr, bix, response,
                   gets, decodes>>
    /\ UNCHANGED <<fvars, ivars>>

\* the call is over; the caller may make the next one
Return ==
    /\ (pc = "done" /\ mode # "item") \/ pc = "returned"
    /\ pc' = "idle"
    /\ mode' = "build"
    /\ op' = 0
    /\ path' = <<>>
    /\ params' = <<>>
    /\ request' = NoRequest
    /\ reqstr' = <<>>
    /\ bix' = 0
    /\ response' = <<>>
    /\ result' = NoResult
    /\ gets' = 0
    /\ decodes' = 0
    /\ UNCHANGED env
    /\ UNCHANGED <<fvars, ivars>>

Next ==
    \/ SetEnv
    \/ NewRequest
    \/ ClientCall
    \/ ItemTags
    \/ IntoRequest
    \/ GetFails
    \/ GetBody
    \/ CheckResponse
    \/ Decode
    \/ Unwrap
    \/ Return

Spec == Init /\ [][Next]_vars

-----------------------------------------------------------------------------
(* The state machine of a SeriesItems collection and its callers *)

\* the owner holds a collection; no request is in progress
FilterInit ==
    /\ env = NotPresent /\ Idle
    /\ source \in Collections
    /\ call = NoCall
    /\ view = <<>>
    /\ it = NoIter
    /\ item = None
    /\ ClientIterIdle

\* the collections a method can be called on: the source, while the caller
\* holds no returned collection, or the collection a method returned when
\* called on the source
Receivers ==
    IF call = NoCall THEN {"source"}
    ELSE IF call.recv = "source" THEN {"view"}
    ELSE {}
Receiver(r) == IF r = "source" THEN source ELSE view

\* a variant of ExcludePhrases that filters the receiver in place
ExcludePhrases_in_place ==
    /\ \E P \in PhraseLists :
          /\ call' = Call("exclude_phrases", "source", source, P)
          /\ view' = exclude_phrases(source, P)
          /\ source' = exclude_phrases(source, P)
    /\ it' = NoIter /\ item' = None
    /\ UNCHANGED <<cvars, ivars>>

ExcludePhrases ==
    /\ \E r \in Receivers, P \in PhraseLists :
          /\ call' = Call("exclude_phrases", r, Receiver(r), P)
          /\ view' = exclude_phrases(Receiver(r), P)
    /\ it' = NoIter /\ item' = None
    /\ UNCHANGED source
    /\ UNCHANGED <<cvars, ivars>>

HasPhrase ==
    /\ \E r \in Receivers, phrase \in Phrases :
          /\ call' = Call("has_phrase", r, Receiver(r), <<phrase>>)
          /\ view' = has_phrase(Receiver(r), phrase)
    /\ it' = NoIter /\ item' = None
    /\ UNCHANGED source
    /\ UNCHANGED <<cvars, ivars>>

EqualsOneOf ==
    /\ \E r \in Receivers, T \in PhraseLists :
          /\ call' = Call("equals_one_of", r, Receiver(r), T)
          /\ view' = equals_one_of(Receiver(r), T)
    /\ it' = NoIter /\ item' = None
    /\ UNCHANGED source
    /\ UNCHANGED <<cvars, ivars>>

OnlyInclude ==
    /\ \E r \in Receivers, P \in PhraseLists :
          /\ call' = Call("only_include", r, Receiver(r), P)
          /\ view' = only_include(Receiver(r), P)
    /\ it' = NoIter /\ item' = None
    /\ UNCHANGED source
    /\ UNCHANGED <<cvars, ivars>>

Inner ==
    /\ \E r \in Receivers :
          /\ call' = Call("inner", r, Receiver(r), <<>>)
          /\ view' = inner(Receiver(r))
    /\ it' = NoIter /\ item' = None
    /\ UNCHANGED source
    /\ UNCHANGED <<cvars, ivars>>

\* the caller lets go of the collection a method returned
Drop ==
    /\ call # NoCall
    /\ call' = NoCall
    /\ view' = <<>>
    /\ UNCHANGED <<source, it, item>>
    /\ UNCHANGED <<cvars, ivars>>

\* source.iter(), by a caller that holds no returned collection
Iter ==
    /\ call = NoCall
    /\ it' = iter(source)
    /\ item' = None
    /\ UNCHANGED <<source, call, view>>
    /\ UNCHANGED <<cvars, ivars>>

\* next() on the iterator
IterNext ==
    /\ it.live
    /\ it' = SeriesItemsIter_next(it).it
    /\ item' = SeriesItemsIter_next(it).item
    /\ UNCHANGED <<source, call, view>>
    /\ UNCHANGED <<cvars, ivars>>

FilterNext ==
    \/ ExcludePhrases
    \/ HasPhrase
    \/ EqualsOneOf
    \/ OnlyInclude
    \/ Inner
    \/ Drop
    \/ Iter
    \/ IterNext

FilterSpec == FilterInit /\ [][FilterNext]_vars

-----------------------------------------------------------------------------
(* The state machine of a FredClientIter and its caller *)

\* no request and no collection is in use, and no iterator yet
ClientIterInit == env = NotPresent /\ Idle /\ FilterIdle /\ ClientIterIdle

\* a variant of the construction that already calls the request function
ClientIterNew_eager(a) ==
    /\ ~fci.live
    /\ fci' = [FredClientIter(args_iter(a)) EXCEPT !.args_iter = args_iter_next(@).iter]
    /\ IF a = <<>> THEN UNCHANGED <<ipc, running, started>>
       ELSE ipc' = "calling" /\ running' = Some(a[1]) /\ started' = started + 1
    /\ UNCHANGED <<calls, ret>>
    /\ UNCHANGED <<cvars, fvars>>

\* FredClientIter::new(args.iter(), f)
ClientIterNew(a) ==
    /\ ~fci.live
    /\ fci' = FredClientIter(args_iter(a))
    /\ UNCHANGED <<ipc, running, calls, started, ret>>
    /\ UNCHANGED <<cvars, fvars>>

\* next(): the argument iterator is asked for an argument; without one next()
\* returns None, with one the request function is called on it
ClientIterNext ==
    /\ fci.live /\ ipc = "idle"
    /\ Len(ret) < MaxNexts
    /\ fci' = [fci EXCEPT !.args_iter = args_iter_next(fci.args_iter).iter]
    /\ IF args_iter_next(fci.args_iter).item.some
       THEN /\ ipc' = "calling"
            /\ running' = args_iter_next(fci.args_iter).item
            /\ started' = started + 1
            /\ UNCHANGED ret
       ELSE /\ ret' = Append(ret, None)
            /\ UNCHANGED <<ipc, running, started>>
    /\ UNCHANGED calls
    /\ UNCHANGED <<cvars, fvars>>

\* the request function returns and next() returns Some of its result
RequestReturns(ok) ==
    /\ ipc = "calling"
    /\ calls' = Append(calls, [arg |-> running.val, result |-> self_f(running.val, ok)])
    /\ ret' = Append(ret, Some(self_f(running.val, ok)))
    /\ ipc' = "idle"
    /\ running' = None
    /\ UNCHANGED <<fci, started>>
    /\ UNCHANGED <<cvars, fvars>>

\* the caller lets go of the iterator
ClientIterDrop ==
    /\ fci.live /\ ipc = "idle"
    /\ fci' = NoClientIter
    /\ calls' = <<>>
    /\ started' = 0
    /\ ret' = <<>>
    /\ UNCHANGED <<ipc, running>>
    /\ UNCHANGED <<cvars, fvars>>

ClientIterStep ==
    \/ \E a \in ArgSeqs : ClientIterNew(a)
    \/ ClientIterNext
    \/ \E ok \in BOOLEAN : RequestReturns(ok)
    \/ ClientIterDrop

ClientIterSpec == ClientIterInit /\ [][ClientIterStep]_vars

-----------------------------------------------------------------------------
(* Properties of the Request Builder *)

U == IF op = 0 THEN "" ELSE Ops[op].U
SentBody == Bodies[bix]

\* the text of one input pair, and of a list of them joined by "&"
PairText(kv) == kv.key \o <<"=">> \o Display(kv.val)

RECURSIVE JoinPairs(_)
JoinPairs(kvs) ==
    IF kvs = <<>> THEN <<>>
    ELSE IF Len(kvs) = 1 THEN PairText(kvs[1])
    ELSE PairText(kvs[1]) \o <<"&">> \o JoinPairs(Tail(kvs))

Endpoint == <<"https://api.stlouisfed.org/", "fred", "/">> \o path
Credential == <<"&", "api_key", "=">> \o env.val
FileType == <<"&", "file_type", "=", "json">>

\* C1: with the credential set to c, building a request for a path and a
\* list of n >= 1 parameters yields exactly
\* "https://api.stlouisfed.org/fred/" path "?" k1=v1&...&kn=vn "&api_key=" c
\* "&file_type=json".
C1_RequestString ==
    (reqstr # <<>> /\ Len(params) >= 1) =>
        reqstr = Endpoint \o <<"?">> \o JoinPairs(params) \o Credential \o FileType

C1_Witness ==
    /\ mode = "build" /\ pc = "done" /\ result.kind = "Ok"
    /\ Len(params) = 2 /\ path = <<"series", "/", "tags">>
    /\ env.val = <<"k", "e", "y">>

\* the query of a request string: what follows its first "?"
QueryOf(s) == SubSeq(s, find(s, 1, "?") + 1, Len(s))

\* a query is components separated by single "&", none of them empty
NoEmptyComponent(q) ==
    /\ q # <<>>
    /\ q[1] # "&"
    /\ q[Len(q)] # "&"
    /\ \A i \in 1..(Len(q) - 1) : ~(q[i] = "&" /\ q[i + 1] = "&")

\* C2: for every parameter list, the empty one included, the query is
\* non-empty components separated by single "&", the first right after "?";
\* with no parameters the request is base fred/ path ?api_key=c&file_type=json.
C2_QueryComponents ==
    reqstr # <<>> =>
        /\ NoEmptyComponent(QueryOf(reqstr))
        /\ params = <<>> =>
              reqstr = Endpoint \o <<"?", "api_key", "=">> \o env.val \o FileType

\* where the text of pair i starts in a request string
PairStart(i) ==
    Len(Endpoint) + 1 + Len(JoinPairs(SubSeq(params, 1, i - 1)))
        + (IF i > 1 THEN 1 ELSE 0) + 1

\* C3: the query holds the key=value pairs in input order, one per input
\* pair, every occurrence of a repeated key or pair at its own position.
C3_OrderPreserved ==
    /\ pc # "idle" =>
          /\ Len(request.keyvals) = Len(params)
          /\ \A i \in 1..Len(params) : request.keyvals[i] = PairText(params[i])
    /\ reqstr # <<>> =>
          \A i \in 1..Len(params) :
              SubSeq(reqstr, PairStart(i), PairStart(i) + Len(PairText(params[i])) - 1)
                  = PairText(params[i])

C3_Witness ==
    /\ reqstr # <<>> /\ Len(params) = 2
    /\ params[1].key = params[2].key
    /\ params[1].val # params[2].val

\* C4: with FRED_API_KEY unset, a FredClient operation returns an error and
\* issues no HTTP GET: it never gets past building the request.
C4_NoGetWithoutCredential ==
    (mode = "client" /\ env.kind = "NotPresent") =>
        /\ gets = 0
        /\ pc \in {"new", "done"}
        /\ pc = "done" => result.kind = "Config"

C4_Witness == mode = "client" /\ env.kind = "NotPresent" /\ pc = "done"

\* C5 as stated: building a request fails if and only if the credential is
\* absent from the environment.
C5_FailsIffAbsent ==
    (mode = "build" /\ pc = "done") =>
        (result.kind # "Ok" <=> env.kind = "NotPresent")

\* C5: building a request fails if and only if env::var("FRED_API_KEY")
\* fails, that is the variable is unset or its value is not valid Unicode;
\* the failure is the configuration error, for every path and parameter list,
\* and a readable credential always yields a request string.
C5_FailsIffUnreadable ==
    (mode = "build" /\ pc = "done") =>
        /\ result.kind # "Ok" <=> env.kind \in {"NotPresent", "NotUnicode"}
        /\ result.kind # "Ok" => result.kind = "Config" /\ result.msg = ConfigMsg
        /\ result.kind = "Ok" => reqstr # <<>>

C5_Witness ==
    /\ mode = "build" /\ pc = "done"
    /\ env.kind = "NotUnicode" /\ result.kind = "Config"

-----------------------------------------------------------------------------
(* Properties of the Response Decoder *)

\* pat occurs in text before the first line break
OnFirstLine(text, pat) ==
    \E i \in 1..(Len(text) - Len(pat) + 1) :
        /\ SubSeq(text, i, i + Len(pat) - 1) = pat
        /\ \A h \in 1..i : text[h] # "\n"

QuotedErrorCode == <<"\"">> \o ErrorCode \o <<"\"">>

\* a body arrived and response() is over
Sniffed == bix # 0 /\ pc \in {"decode", "done"}

\* response() returned Ok(body)
ResponseOk == bix # 0 /\ (pc = "decode" \/ decodes = 1)

\* C6: a body whose first line contains error_code makes the call fail with
\* the API error, which carries the whole body, whatever the other lines hold
\* and even if the body would decode; no decode is attempted.
C6_ErrorLineIsApiError ==
    (Sniffed /\ OnFirstLine(response, ErrorCode)) =>
        /\ pc = "done"
        /\ result.kind = "Api"
        /\ contains(result.msg, response)
        /\ decodes = 0

C6_Witness ==
    /\ pc = "done" /\ result.kind = "Api"
    /\ SentBody.pt.kind = "extra" /\ SentBody.schema = U
    /\ from_str(U, response).ok

\* C7 as stated: only a first line that contains "error_code" with its
\* double quotes is an API error; any other body with a first line is
\* returned by response() as Ok.
C7_OnlyQuotedLiteral ==
    Sniffed =>
        /\ result.kind = "Api" => OnFirstLine(response, QuotedErrorCode)
        /\ (response # <<>> /\ ~OnFirstLine(response, QuotedErrorCode)) => ResponseOk

\* C7: only a first line that contains error_code (quoted or not) is an API
\* error; a non-empty body whose first line lacks it, also one that has it
\* on a later line only, is returned by response() as Ok and goes to decoding.
C7_OnlyErrorLine ==
    Sniffed =>
        /\ result.kind = "Api" => OnFirstLine(response, ErrorCode)
        /\ (response # <<>> /\ ~OnFirstLine(response, ErrorCode)) => ResponseOk

C7_Witness ==
    /\ pc = "decode"
    /\ SentBody.made = "document then error"
    /\ contains(response, QuotedErrorCode)

\* the scalar types of the schemas
Scalars == {"String", "isize", "usize", "bool"}

\* v is a value of type ty with every declared field populated
RECURSIVE FullValue(_, _)
FullValue(ty, v) ==
    CASE Head(ty) = "String" -> v.t = "String"
      [] Head(ty) = "isize" -> v.t = "int"
      [] Head(ty) = "usize" -> v.t = "int" /\ v.n >= 0
      [] Head(ty) = "bool" -> v.t = "bool"
      [] Head(ty) = "Option" ->
            v.t = "None" \/ (v.t = "Some" /\ FullValue(Tail(ty), v.a[1]))
      [] Head(ty) = "Vec" ->
            v.t = "Vec" /\ \A i \in 1..Len(v.a) : FullValue(Tail(ty), v.a[i])
      [] NewtypeOf(Head(ty)) # <<>> ->
            v.t = "newtype" /\ FullValue(NewtypeOf(Head(ty)), v.a[1])
      [] OTHER ->
            /\ v.t = "struct" /\ v.s = <<Head(ty)>>
            /\ Len(v.a) = Len(Fields(Head(ty)))
            /\ \A k \in 1..Len(v.a) : FullValue(Fields(Head(ty))[k].ty, v.a[k])

\* the declared field of a struct is not an Option
Required(struct, field) ==
    \E k \in 1..Len(Fields(struct)) :
        Fields(struct)[k].name = field /\ Head(Fields(struct)[k].ty) # "Option"

\* a document made for the schema is one of the target type's layout
SameLayout(target, schema) ==
    /\ target \in StructNames /\ schema \in StructNames
    /\ Len(Fields(target)) = Len(Fields(schema))
    /\ \A k \in 1..Len(Fields(target)) :
          LET f == Fields(target)[k]
              g == Fields(schema)[k] IN
          /\ f.name = g.name
          /\ \/ f.ty = g.ty
             \/ /\ Head(f.ty) = "Vec" /\ Head(g.ty) = "Vec"
                /\ Fields(f.ty[2]) = Fields(g.ty[2])

\* the body does not match the target type's structure
Mismatch(b, target) ==
    \/ b.made \in {"truncated", "trailing", "negative id"}
    \/ /\ b.made = "sample"
       /\ \/ ~SameLayout(target, b.schema)
          \/ b.pt.kind \in {"mistype", "twice"}
          \/ b.pt.kind \in {"omit", "null"} /\ Required(b.pt.struct, b.pt.field)

\* C8: a body that passed the error check yields either a value of the
\* target type with every declared field populated, or the decode error that
\* carries the body; a body that does not match the target's structure
\* yields the decode error, never a value.
C8_DecodeAllOrNothing ==
    (pc = "done" /\ decodes = 1) =>
        /\ result.kind \in {"Ok", "Decode"}
        /\ result.kind = "Ok" => SentBody.wf /\ FullValue(<<U>>, result.val)
        /\ result.kind = "Decode" =>
              /\ contains(result.msg, response)
              /\ result.val = NoValue
        /\ Mismatch(SentBody, U) => result.kind = "Decode"

C8_Witness ==
    /\ pc = "done" /\ decodes = 1 /\ result.kind = "Decode"
    /\ U = "Series"
    /\ SentBody.pt = Pert("omit", "SeriesItem", "title")

\* every declared field of ty, at every level, is present in the document
RECURSIVE AllDeclaredPresent(_, _)
AllDeclaredPresent(ty, j) ==
    CASE Head(ty) \in Scalars -> TRUE
      [] Head(ty) = "Option" -> j.t = "null" \/ AllDeclaredPresent(Tail(ty), j)
      [] Head(ty) = "Vec" ->
            j.t = "arr" /\ \A i \in 1..Len(j.a) : AllDeclaredPresent(Tail(ty), j.a[i])
      [] NewtypeOf(Head(ty)) # <<>> -> AllDeclaredPresent(NewtypeOf(Head(ty)), j)
      [] OTHER ->
            /\ j.t = "obj"
            /\ \A k \in 1..Len(Fields(Head(ty))) :
                  LET f == Fields(Head(ty))[k] IN
                  /\ Members(j, f.name) # <<>>
                  /\ AllDeclaredPresent(f.ty, Members(j, f.name)[1].a[1])

\* every declared field of ty is present in the document, or is an Option
\* and None in the value
RECURSIVE PresentOrNone(_, _, _)
PresentOrNone(ty, j, v) ==
    CASE Head(ty) \in Scalars -> TRUE
      [] Head(ty) = "Option" ->
            j.t = "null" \/ (v.t = "Some" /\ PresentOrNone(Tail(ty), j, v.a[1]))
      [] Head(ty) = "Vec" ->
            /\ j.t = "arr" /\ Len(v.a) = Len(j.a)
            /\ \A i \in 1..Len(j.a) : PresentOrNone(Tail(ty), j.a[i], v.a[i])
      [] NewtypeOf(Head(ty)) # <<>> -> PresentOrNone(NewtypeOf(Head(ty)), j, v.a[1])
      [] OTHER ->
            /\ j.t = "obj"
            /\ \A k \in 1..Len(Fields(Head(ty))) :
                  LET f == Fields(Head(ty))[k] IN
                  IF Members(j, f.name) = <<>>
                  THEN Head(f.ty) = "Option" /\ v.a[k] = RNone
                  ELSE PresentOrNone(f.ty, Members(j, f.name)[1].a[1], v.a[k])

\* a JSON-object document was decoded into a value
DecodedDocument ==
    /\ pc = "done" /\ decodes = 1 /\ result.kind = "Ok"
    /\ SentBody.made = "sample"

\* C9 as stated: decoding succeeds only if every declared field is present
\* in the body, the Option fields included.
C9_EveryFieldPresent == DecodedDocument => AllDeclaredPresent(<<U>>, SentBody.doc)

\* C9: decoding succeeds only if every declared field that is not an Option
\* is present in the body; an absent Option field (SeriesItem.notes,
\* SeriesItem.group_popularity, Tag.notes, ReleaseItem.link, Category.notes)
\* does not fail the decode and is None in the value.
C9_RequiredFieldsPresent ==
    DecodedDocument => PresentOrNone(<<U>>, SentBody.doc, result.val)

C9_Witness ==
    /\ DecodedDocument /\ U = "Series"
    /\ SentBody.pt = Pert("omit", "SeriesItem", "notes")

\* what makes a call end in each kind of error
Cause(kind) ==
    CASE kind = "Config" -> env.kind # "Ok" /\ gets = 0 /\ result.msg = ConfigMsg
      [] kind = "Transport" -> gets = 1 /\ bix = 0
      [] kind = "Api" -> bix # 0 /\ OnFirstLine(response, ErrorCode) /\ decodes = 0
      [] kind = "Decode" -> bix # 0 /\ decodes = 1 /\ contains(result.msg, response)
      [] kind = "Empty" -> bix # 0 /\ response = <<>> /\ decodes = 0
      [] OTHER -> FALSE

\* C10 as stated: a failing call returns an error of one of four kinds
\* (configuration, transport, API, decode), and a body the transport returned
\* leads to a decoded value, the API error or the decode error.
C10_FourKinds ==
    (mode = "client" /\ pc = "done") =>
        /\ result.kind \in {"Ok", "Config", "Transport", "Api", "Decode"}
        /\ result.kind # "Ok" => Cause(result.kind)
        /\ bix # 0 => result.kind \in {"Ok", "Api", "Decode"}

\* C10: a failing call returns an error of one of five kinds: configuration,
\* transport, API, decode, or the empty-response error of a body without a
\* first line; a body the transport returned leads to a decoded value, the
\* API error, the decode error or, if and only if it is empty, the
\* empty-response error.
C10_FiveKinds ==
    (mode = "client" /\ pc = "done") =>
        /\ result.kind \in {"Ok", "Config", "Transport", "Api", "Decode", "Empty"}
        /\ result.kind # "Ok" => Cause(result.kind)
        /\ bix # 0 => result.kind \in {"Ok", "Api", "Decode", "Empty"}
        /\ (bix # 0 /\ response = <<>>) => result.kind = "Empty"

C10_Witness ==
    /\ mode = "client" /\ pc = "done"
    /\ result.kind = "Empty" /\ gets = 1 /\ response = <<>>

-----------------------------------------------------------------------------
(* Properties of a call as a whole *)

\* the current call has failed
Failed == result.kind \notin {"Pending", "Ok"}

\* what one step of a call may do
C11_Step ==
    /\ gets' > gets =>
          /\ pc = "get" /\ reqstr # <<>>
          /\ gets = 0 /\ gets' = 1 /\ bix = 0 /\ decodes = 0
    /\ pc' = "sniff" => pc = "get" /\ gets' = 1
    /\ decodes' > decodes =>
          /\ pc = "decode" /\ gets = 1 /\ bix # 0
          /\ check_response(reqstr, response).kind = "Ok"
          /\ decodes = 0 /\ decodes' = 1
    /\ (Failed /\ pc' # "idle") =>
          /\ gets' = gets /\ decodes' = decodes
          /\ bix' = bix /\ result' = result
          /\ pc' \notin {"new", "get", "sniff", "decode"}

\* C11: a call builds the request, issues the GET, checks the first line and
\* decodes, in that order, with at most one GET; once a step has failed the
\* call issues no GET, retries nothing and decodes nothing: it only returns.
C11_StepsInOrder == [][C11_Step]_vars

C11_Witness ==
    /\ mode = "client" /\ pc = "done"
    /\ gets = 1 /\ decodes = 1 /\ result.kind = "Decode"

\* C12: every failure of a request made by a public operation, those of
\* SeriesItem::tags included, comes back to the caller as an error value: no
\* operation panics, and none turns the failure into a success value.
C12_FailuresAreReturned ==
    /\ pc # "panic"
    /\ pc = "returned" =>
          (result.kind = "Ok" <=> (decodes = 1 /\ from_str(U, response).ok))

\* C13: series_json and series_observations_json return Ok with the response
\* body as text, for every JSON-object body that passed the first-line check.
C13_JsonTextReturned ==
    (/\ pc = "done" /\ mode = "client" /\ decodes = 1
     /\ Ops[op].name \in {"series_json", "series_observations_json"}
     /\ SentBody.wf /\ SentBody.doc.t = "obj") =>
        result = Ok(RString(response))

-----------------------------------------------------------------------------
(* Further properties of the request string and of the empty check *)

\* the endpoint path of a request string: between "fred/" and the first "?"
PathOf(s) == SubSeq(s, 4, find(s, 1, "?") - 1)

\* the credential of a request string: between the last "api_key=" and
\* "&file_type=json"
CredentialOf(s) ==
    LET k == CHOOSE i \in 1..Len(s) :
                 s[i] = "api_key" /\ \A j \in (i + 1)..Len(s) : s[j] # "api_key"
    IN SubSeq(s, k + 2, Len(s) - Len(FileType))

\* C24: every request string that is built has a non-empty endpoint path and
\* a non-empty credential after "api_key=", whatever path the caller passes
\* and whatever string FRED_API_KEY is set to.
C24_PathAndCredentialNonEmpty ==
    reqstr # <<>> => PathOf(reqstr) # <<>> /\ CredentialOf(reqstr) # <<>>

\* the characters that are reserved in a URL
Reserved == {"&", "=", "?", "#", " "}

\* the text of a value as the caller wrote it
Verbatim(v) == IF v.ty = "usize" THEN usize_to_string(v.n) ELSE v.s

\* C25: every parameter value stands in the request string verbatim, as
\* key=value, with no URL-encoding or escaping, also when the value holds
\* "&", "=", "?", "#" or a space.
C25_ValuesVerbatim ==
    reqstr # <<>> =>
        /\ \A i \in 1..Len(params) :
              contains(reqstr, params[i].key \o <<"=">> \o Verbatim(params[i].val))
        /\ \A h \in 1..Len(reqstr) : reqstr[h] # "%"

C25_Witness ==
    /\ reqstr # <<>> /\ Len(params) = 2
    /\ \A c \in Reserved : \E h \in 1..Len(params[2].val.s) : params[2].val.s[h] = c
    /\ params[1].val.s = <<"GNPCA">>

\* C27: an empty body makes response() return an error that names the
\* request, without a decode; a body whose first line is empty and that has
\* further lines is not taken for empty and goes to decoding.
C27_EmptyBody ==
    Sniffed =>
        /\ response = <<>> =>
              /\ pc = "done" /\ Failed
              /\ result.msg = <<"Http response to [">> \o Debug(reqstr) \o <<"] was empty.">>
              /\ contains(result.msg, reqstr)
              /\ decodes = 0
        /\ (Len(response) > 1 /\ response[1] = "\n") => ResponseOk

C27_Witness ==
    /\ pc = "done" /\ decodes = 1
    /\ SentBody.made = "blank first line"
    /\ response[1] = "\n" /\ result.kind = "Ok"

-----------------------------------------------------------------------------
(* Properties of the SeriesItems filters *)

\* the items of C at the positions I, in the order of C
Sub(C, I) ==
    [k \in 1..Cardinality(I) |->
        C[CHOOSE i \in I : Cardinality({j \in I : j < i}) = k - 1]]

\* the items of C that satisfy P, in the order of C
Those(C, P(_)) == Sub(C, {i \in 1..Len(C) : P(C[i])})

\* pat is a substring of s: s is some text, then pat, then some text
Occurs(pat, s) ==
    \E i \in 0..Len(s) : \E j \in i..Len(s) : SubSeq(s, i + 1, j) = pat

\* the last call was the method, on any receiver
Called(name) == call.name = name

\* C14: exclude_phrases(P) returns exactly the items of the receiver whose
\* title contains none of the strings of P.
C14_ExcludePhrases ==
    Called("exclude_phrases") =>
        view = Those(call.self,
                     LAMBDA x : \A k \in 1..Len(call.args) : ~Occurs(call.args[k], x.title))

C14_Witness ==
    /\ Called("exclude_phrases") /\ Len(call.args) = 2
    /\ Len(call.self) = 3 /\ Len(view) = 1

\* C15: has_phrase(p) returns exactly the items of the receiver whose title
\* contains p.
C15_HasPhrase ==
    Called("has_phrase") =>
        view = Those(call.self, LAMBDA x : Occurs(call.args[1], x.title))

C15_Witness ==
    /\ Called("has_phrase") /\ call.args[1] = <<"a">>
    /\ Len(call.self) = 3 /\ Len(view) = 2

\* C16: equals_one_of(T) returns exactly the items of the receiver whose
\* title is equal, as a whole string, to an element of T.
C16_EqualsOneOf ==
    Called("equals_one_of") =>
        view = Those(call.self,
                     LAMBDA x : \E k \in 1..Len(call.args) : call.args[k] = x.title)

\* a title that contains an element of T without being equal to one is dropped
C16_Witness ==
    /\ Called("equals_one_of") /\ call.args = <<<<"c">>, <<"a">>>>
    /\ \E i \in 1..Len(call.self) : call.self[i].title = <<"b", "c">>
    /\ Len(view) = 1 /\ view[1].title = <<"a">>

\* C17: only_include(P) returns exactly the items of the receiver whose title
\* contains at least one string of P; for a list of one phrase p its result
\* is that of has_phrase(p).
C17_OnlyInclude ==
    /\ Called("only_include") =>
          /\ view = Those(call.self,
                          LAMBDA x : \E k \in 1..Len(call.args) : Occurs(call.args[k], x.title))
          /\ Len(call.args) = 1 => view = has_phrase(call.self, call.args[1])
    /\ Called("has_phrase") => view = only_include(call.self, call.args)

C17_Witness ==
    /\ Called("only_include") /\ Len(call.args) = 2
    /\ Len(call.self) = 3 /\ Len(view) = 2
    /\ view # has_phrase(call.self, call.args[1])
    /\ view # has_phrase(call.self, call.args[2])

Filters == {"exclude_phrases", "has_phrase", "equals_one_of", "only_include"}

\* how many times x occurs in C
Count(C, x) == Cardinality({i \in 1..Len(C) : C[i] = x})

\* C18: the result of a filter is a subsequence of the receiver: the kept
\* items in their relative order, each as many times as in the receiver, and
\* nothing else.
C18_Subsequence ==
    call.name \in Filters =>
        /\ \E I \in SUBSET (1..Len(call.self)) : view = Sub(call.self, I)
        /\ \A k \in 1..Len(view) : Count(view, view[k]) = Count(call.self, view[k])

C18_Witness ==
    /\ call.name \in Filters
    /\ Len(call.self) = 3 /\ Len(view) = 2
    /\ call.self[1] = call.self[3] /\ call.self[2] # call.self[1]
    /\ view[1] = view[2]

\* C19: no filter or accessor changes its receiver: in every step the source
\* keeps its items in their order, whichever method is called on it or on a
\* collection returned from it, and an iterator over it reads the same items.
C19_ReceiverUnchanged ==
    [][/\ source' = source
       /\ it'.live => it'.data = source
       /\ (call'.name # "none" /\ call'.recv = "source") => call'.self = source]_vars

\* a returned collection was filtered again, and the source is not what
\* either call returned
C19_Witness ==
    /\ call.name \in Filters /\ call.recv = "view"
    /\ Len(source) = 3
    /\ Len(call.self) = 2 /\ Len(view) = 1

\* A and B hold the items of C between them, each position of C in one of them
Partition(C, A, B) ==
    /\ \E I \in SUBSET (1..Len(C)) :
          A = Sub(C, I) /\ B = Sub(C, (1..Len(C)) \ I)
    /\ \A i \in 1..Len(C) : (Count(A, C[i]) = 0) # (Count(B, C[i]) = 0)

\* C20: for every phrase p, exclude_phrases([p]) and has_phrase(p) partition
\* the receiver: every item is in exactly one of the two results, and the
\* two results interleaved by original position give the receiver back.
C20_Complement ==
    /\ Called("has_phrase") =>
          Partition(call.self, exclude_phrases(call.self, call.args), view)
    /\ (Called("exclude_phrases") /\ Len(call.args) = 1) =>
          Partition(call.self, view, has_phrase(call.self, call.args[1]))

C20_Witness ==
    /\ Called("exclude_phrases") /\ call.args = <<<<"c">>>>
    /\ Len(call.self) = 3
    /\ Len(view) = 2 /\ Len(has_phrase(call.self, <<"c">>)) = 1

\* C21: equals_one_of is idempotent: applied with the same titles to its own
\* result it returns the same items in the same order.
C21_EqualsOneOfIdempotent ==
    Called("equals_one_of") => equals_one_of(view, call.args) = view

\* equals_one_of applied to a returned collection gave that collection back
C21_Witness ==
    /\ Called("equals_one_of") /\ call.recv = "view"
    /\ Len(source) = 3 /\ Len(view) = 2
    /\ view = call.self
    /\ view = equals_one_of(source, call.args)

\* C22: for every phrase list P, the empty one included, only_include(P) is
\* the complement of exclude_phrases(P): each item of the receiver is in
\* exactly one of the two results.
C22_OnlyIncludeComplement ==
    /\ Called("only_include") =>
          Partition(call.self, exclude_phrases(call.self, call.args), view)
    /\ Called("exclude_phrases") =>
          Partition(call.self, view, only_include(call.self, call.args))

C22_Witness ==
    /\ Called("only_include") /\ Len(call.args) = 2
    /\ Len(call.self) = 3 /\ Len(view) = 1
    /\ Len(exclude_phrases(call.self, call.args)) = 2

\* the empty string is among the phrases
HasEmptyPhrase(P) == \E k \in 1..Len(P) : P[k] = <<>>

\* C28: with an empty phrase list exclude_phrases returns a copy of the
\* whole receiver and only_include and equals_one_of return the empty
\* collection; with the empty string as a phrase has_phrase and only_include
\* return the whole receiver and exclude_phrases returns the empty collection.
C28_EdgeCases ==
    /\ (Called("exclude_phrases") /\ call.args = <<>>) => view = call.self
    /\ (call.name \in {"only_include", "equals_one_of"} /\ call.args = <<>>) => view = <<>>
    /\ (call.name \in {"has_phrase", "only_include"} /\ HasEmptyPhrase(call.args)) =>
          view = call.self
    /\ (Called("exclude_phrases") /\ HasEmptyPhrase(call.args)) => view = <<>>

C28_Witness ==
    /\ Called("exclude_phrases") /\ call.args = <<>>
    /\ Len(call.self) = 3 /\ view = call.self

\* a filter applied to a collection
Apply(name, C, args) ==
    CASE name = "exclude_phrases" -> exclude_phrases(C, args)
      [] name = "has_phrase" -> has_phrase(C, args[1])
      [] name = "only_include" -> only_include(C, args)
      [] name = "equals_one_of" -> equals_one_of(C, args)

\* the argument lists of a filter
ArgsOf(name) == IF name = "has_phrase" THEN {<<p>> : p \in Phrases} ELSE PhraseLists

\* C29: the filters commute: a second filter applied to the result of a first
\* gives what the first gives when applied to the result of the second; and
\* a filter applied twice with the same argument gives what it gives once.
C29_FiltersCommute ==
    (call.name \in Filters /\ call.recv = "source") =>
        /\ \A G \in Filters : \A Q \in ArgsOf(G) :
              Apply(G, view, Q) = Apply(call.name, Apply(G, call.self, Q), call.args)
        /\ Apply(call.name, view, call.args) = view

\* a filter that drops one of three items, and another that drops one more
C29_Witness ==
    /\ call.name \in Filters /\ call.recv = "source"
    /\ Len(call.self) = 3 /\ Len(view) = 2
    /\ \E G \in Filters \ {call.name} : \E Q \in ArgsOf(G) :
          /\ Len(Apply(G, view, Q)) = 1
          /\ Len(Apply(G, call.self, Q)) = 2

\* what a step leaves of an iterator over the source
C30_Step ==
    it'.live =>
        /\ it'.data = source
        /\ it'.count >= 0 /\ it'.count <= Len(it'.data)
        /\ item'.some => it'.count >= 1 /\ item'.val = it'.data[it'.count]
        /\ it.live =>
              /\ it'.count \in {0, it.count, it.count + 1}
              /\ it'.count = it.count + 1 => item' = Some(it.data[it.count + 1])
              /\ (it'.count = it.count /\ item' # item) =>
                    it.count = Len(it.data) /\ item' = None
        /\ (it'.count = 0 /\ it' # it) => item' = None

\* C30: the iterator keeps 0 <= count <= length, yields the items at indices
\* 0..length-1 once each in index order, and then returns None on every
\* further next() without changing count, also for an empty collection.
C30_IteratorInBounds == [][C30_Step]_vars

C30_Witness ==
    /\ it.live /\ Len(it.data) = 3
    /\ it.count = 3 /\ item = None

-----------------------------------------------------------------------------
(* Properties of FredClientIter *)

\* the results next() has yielded so far, in order
Yielded == SelectSeq(ret, LAMBDA r : r.some)

\* next() has returned None
Exhausted == \E k \in 1..Len(ret) : ~ret[k].some

\* what holds of an iterator over the arguments a1..an at every moment
C23_State ==
    fci.live =>
        LET a == fci.args_iter.data IN
        /\ started = fci.args_iter.pos
        /\ started <= Len(a)
        /\ Len(calls) = IF ipc = "calling" THEN started - 1 ELSE started
        /\ ipc = "calling" => running = Some(a[started])
        /\ \A i \in 1..Len(calls) : calls[i].arg = a[i]
        /\ Len(Yielded) = Len(calls)
        /\ \A i \in 1..Len(calls) : Yielded[i] = Some(calls[i].result)
        /\ Exhausted =>
              /\ Len(Yielded) = Len(a)
              /\ ipc = "idle"
              /\ ~ret[Len(ret)].some

\* C23: an iterator over a1..an yields exactly n results, the i-th being the
\* result of the request function on ai, in input order; the function is
\* called once per argument and a call starts only after the one before it
\* returned; once next() has returned None nothing more is yielded and no
\* call is made.
C23_OneResultPerArgument ==
    [][/\ C23_State'
       /\ (fci.live /\ fci'.live /\ Exhausted) =>
              /\ fci' = fci /\ calls' = calls /\ started' = started
              /\ Yielded' = Yielded
       /\ started' > started => (ipc = "idle" /\ started' = started + 1)]_vars

\* three arguments consumed, with a repeated one, and a further next()
C23_Witness ==
    /\ fci.live /\ Len(fci.args_iter.data) = 3
    /\ fci.args_iter.data[1] = fci.args_iter.data[3]
    /\ fci.args_iter.data[1] # fci.args_iter.data[2]
    /\ Len(Yielded) = 3
    /\ Len(ret) = 5

\* the calls of next() begun so far
Nexts == Len(ret) + IF ipc = "calling" THEN 1 ELSE 0

IsErr(r) == r.some /\ r.val.kind # "Ok"

\* C26: constructing the iterator calls the request function zero times, each
\* next() calls it at most once, and an Err it returns is yielded as an item,
\* after which the following next() calls it on the next argument.
C26_LazyAndKeepsGoing ==
    [][/\ (~fci.live /\ fci'.live) => (started' = 0 /\ calls' = <<>> /\ ipc' = "idle")
       /\ fci'.live => started' <= Nexts'
       /\ (fci.live /\ fci'.live) => started' - started <= Nexts' - Nexts
       /\ (ipc = "calling" /\ ipc' = "idle") =>
              /\ ret' = Append(ret, Some(calls'[Len(calls')].result))
              /\ fci' = fci
       /\ (/\ fci.live /\ ipc = "idle" /\ ret # <<>> /\ IsErr(ret[Len(ret)])
           /\ fci.args_iter.pos < Len(fci.args_iter.data)
           /\ Nexts' > Nexts) =>
              /\ ipc' = "calling"
              /\ running' = Some(fci.args_iter.data[fci.args_iter.pos + 1])
              /\ started' = started + 1]_vars

\* an Err was yielded and the next argument's result after it
C26_Witness ==
    /\ fci.live /\ Len(ret) = 3
    /\ IsErr(ret[1]) /\ ret[2].some /\ ~IsErr(ret[2]) /\ IsErr(ret[3])
    /\ calls[2].arg = fci.args_iter.data[2]

====
